---- MODULE Spec2Model ----
(***************************************************************************)
(* Session-lifecycle and concurrency engine of the Overcooked demo server  *)
(* (src/overcooked_demo/server: app.py, game.py, utils.py).                *)
(*                                                                         *)
(* Threads are preemptive.  Every operation on a registry (ThreadSafeDict, *)
(* ThreadSafeSet, queue.Queue) is one atomic step, as each of them takes   *)
(* the structure's own lock for exactly that operation.  A step of the     *)
(* model holds at most one such registry operation, together with the      *)
(* thread-local work and the work on a session whose lock the thread       *)
(* holds; acquiring a lock is merged with the step that follows it and     *)
(* releasing it with the step that precedes it.                            *)
(***************************************************************************)
EXTENDS Integers, Sequences, FiniteSets, TLC

\* ---------------------------------------------------------------- bounds
NumUsers   == 2     \* connections (request.sid values) 1..NumUsers
MaxGames   == 1     \* CONFIG["MAX_GAMES"]: size of the ID pool
MaxObjs    == 3     \* Game objects alive (still referenced) at once
MaxOps     == 3     \* socket events one connection sends
MaxEvents  == 3     \* socket events all connections send together
MaxLayouts == 2     \* len(layouts) of a created game
MaxPlay    == 2     \* play_game background tasks alive at once
MaxRace    == 5     \* socket events of the create / leave race scenario
MaxTicks   == 3     \* ticks of one layout before its timer has run out
MaxTpa     == 2     \* ticks_per_ai_action ranges over 1..MaxTpa
MaxActs    == 2     \* action events the clients of one session send

\* ------------------------------------------------------- program constants
EMPTY      == 0     \* Game.EMPTY, the marker of an unfilled player slot
NoGame     == 0     \* None, where a Game object is expected
NoId       == -1    \* None, where a game id / room id is expected
NoIdx      == -1    \* idx=None of add_player
DefaultMaxPlayers == 2   \* num_players=2 of OvercookedGame.__init__
NpcBuffSize == 1         \* buff_size=1 of an automated player's action queue

Users   == 1..NumUsers
Ids     == 0..(MaxGames - 1)
PlayTh  == (NumUsers + 1)..(NumUsers + MaxPlay)
Threads == Users \cup PlayTh

\* id of the automated participant in player slot idx (playerZero + "_0", ...)
NpcId(idx) == -(idx + 1)

\* game kinds a client asks for: playerZero/playerOne human or automated;
\* "BAD" names an agent whose pickle cannot be loaded
Kinds == {"HH", "HA", "AA", "BAD"}

VARIABLES
    FREE_IDS,      \* queue.Queue(maxsize=MAX_GAMES) of ids
    FREE_MAP,      \* id -> BOOLEAN
    GAMES,         \* id -> Game object (heap index) or NoGame
    ACTIVE_GAMES,  \* set of ids
    WAITING_GAMES, \* queue.Queue of ids
    USERS,         \* set of connected sids (each maps to its Lock)
    USER_ROOMS,    \* sid -> id or NoId
    rooms,         \* socket.io rooms: id -> set of sids
    heap,          \* the Game objects: slot -> object, or DeadGame for a free slot
    th,            \* the threads: one event handler per user, the play_game tasks
    script,        \* per user: the events still to come, each a set of choices
    budget,        \* events the connections may still send
    sess,          \* per user: "new", "open" (connected), "closed"
    lastOut        \* the last thing the server put out: a socket.io event it
                   \* emitted, or the exception a handler or task died with

\* the tick loop and the NPC worker of one active session with an automated
\* player (the record is described in the section on the tick loop below)
VARIABLES npc

\* who holds which lock, in the handlers and tasks seen as sequences of lock
\* operations (the record is described in the section on the locks below)
VARIABLES lk

lifeVars == <<FREE_IDS, FREE_MAP, GAMES, ACTIVE_GAMES, WAITING_GAMES, USERS,
              USER_ROOMS, rooms, heap, th, script, budget, sess, lastOut, lk>>
vars == <<lifeVars, npc>>

\* ------------------------------------------------------------ Game object
RECURSIVE CountNonEmpty(_)
CountNonEmpty(ps) ==
    IF ps = <<>> THEN 0
    ELSE (IF Head(ps) # EMPTY THEN 1 ELSE 0) + CountNonEmpty(Tail(ps))

\* Game.num_players
num_players(g) == CountNonEmpty(g.players)

\* a faulty is_full that lets one player more in
is_full_Over(g) == num_players(g) > g.max_players

\* OvercookedGame.is_full
is_full(g) == num_players(g) >= g.max_players

\* OvercookedGame.is_empty:  super().is_empty() or not spectators and not human_players
is_empty(g) ==
    \/ num_players(g) = 0
    \/ (g.spectators = {} /\ g.human_players = {})

\* a faulty is_ready that does not ask for a full game
is_ready_NotFull(g) == ~is_empty(g)

\* OvercookedGame.is_ready
is_ready(g) == is_full(g) /\ ~is_empty(g)

InPlayers(g, p) == \E i \in 1..Len(g.players) : g.players[i] = p

\* list.index: position (1-based) of the first occurrence
IndexOf(ps, p) == CHOOSE i \in 1..Len(ps) : ps[i] = p /\ \A j \in 1..(i - 1) : ps[j] # p

\* a faulty add_player that accepts every game
add_player_raises_Never(g) == FALSE

\* Game.add_player raises on a full or an active game
add_player_raises(g) == is_full(g) \/ g.active

\* Game.add_player + OvercookedGame.add_player, idx 0-based or NoIdx
add_player(g, p, idx, is_human) ==
    LET notIdx == idx = NoIdx \/ idx = 0
        i0 == IF notIdx /\ InPlayers(g, EMPTY) THEN IndexOf(g.players, EMPTY) - 1
              ELSE IF notIdx THEN Len(g.players)
              ELSE idx
        padding == IF i0 - Len(g.players) + 1 > 0 THEN i0 - Len(g.players) + 1 ELSE 0
        padded == g.players \o [k \in 1..padding |-> EMPTY]
        queues == g.pending_actions \o [k \in 1..padding |-> EMPTY]
    IN  [g EXCEPT !.players = [padded EXCEPT ![i0 + 1] = p],
                  !.pending_actions = [queues EXCEPT ![i0 + 1] = <<>>],
                  !.human_players = IF is_human THEN @ \cup {p} ELSE @,
                  !.npc_players = IF is_human THEN @ ELSE @ \cup {p}]

\* Game.add_spectator
add_spectator(g, p) == [g EXCEPT !.spectators = @ \cup {p}]

\* a faulty remove_player that deletes the slot from the lists
remove_player_Compact(g, p) ==
    LET i == IndexOf(g.players, p)
        cut(q) == SubSeq(q, 1, i - 1) \o SubSeq(q, i + 1, Len(q))
    IN  [g EXCEPT !.players = cut(@),
                  !.pending_actions = cut(@),
                  !.human_players = @ \ {p},
                  !.npc_players = IF p \in g.human_players THEN @ ELSE @ \ {p}]

\* Game.remove_player + OvercookedGame.remove_player (p is in players)
remove_player(g, p) ==
    [g EXCEPT !.players = [@ EXCEPT ![IndexOf(@, p)] = EMPTY],
              !.pending_actions = [@ EXCEPT ![IndexOf(g.players, p)] = EMPTY],
              !.human_players = @ \ {p},
              !.npc_players = IF p \in g.human_players THEN @ ELSE @ \ {p}]

\* OvercookedGame.remove_player raises ValueError("Inconsistent state")
remove_player_raises(g, p) == p \notin g.human_players /\ p \notin g.npc_players

\* Game.remove_spectator: set.remove raises KeyError for an absent id
remove_spectator_raises(g, p) == p \notin g.spectators
remove_spectator(g, p) == [g EXCEPT !.spectators = @ \ {p}]

\* OvercookedGame.activate: sets _is_active, then checks the player sets and
\* pops a layout; either of the two may raise with _is_active already set
activate_raises(g) ==
    \/ (g.npc_players \cup g.human_players) # {g.players[i] : i \in 1..Len(g.players)}
    \/ g.layouts = 0
activate(g) ==
    IF activate_raises(g) THEN [g EXCEPT !.active = TRUE]
    ELSE [g EXCEPT !.active = TRUE, !.layouts = @ - 1]

\* Game.clear_pending_actions: the queue of every held slot is emptied
clear_pending_actions(g) ==
    [g EXCEPT !.pending_actions =
        [i \in DOMAIN g.players |-> IF g.players[i] # EMPTY THEN <<>> ELSE @[i]]]

\* OvercookedGame.deactivate (the NPC workers are joined before it returns)
deactivate(g) == clear_pending_actions([g EXCEPT !.active = FALSE])

\* OvercookedGame.__init__ for the kinds above, before any human is added
NewGame(id, kind, nl) ==
    LET g0 == [id |-> id, players |-> <<>>, pending_actions |-> <<>>, spectators |-> {},
               human_players |-> {}, npc_players |-> {},
               max_players |-> DefaultMaxPlayers, active |-> FALSE,
               layouts |-> nl, lock |-> FALSE, puts |-> 0]
        g1 == IF kind = "AA" THEN add_player(g0, NpcId(0), 0, FALSE) ELSE g0
    IN  IF kind \in {"HA", "AA"} THEN add_player(g1, NpcId(1), 1, FALSE) ELSE g1

\* a slot of the heap that holds no object
DeadGame == [id |-> NoId, players |-> <<>>, pending_actions |-> <<>>, spectators |-> {},
             human_players |-> {}, npc_players |-> {},
             max_players |-> DefaultMaxPlayers, active |-> FALSE,
             layouts |-> 0, lock |-> FALSE, puts |-> 0]

\* OvercookedGame.get_policy raises IOError when the agent cannot be loaded
get_policy_raises(kind) == kind = "BAD"

\* ----------------------------------------------------------------- events
Event(op, kind, cinf, nl) == [op |-> op, kind |-> kind, cinf |-> cinf, nl |-> nl]
CreateEvents == {Event("create", k, TRUE, n) : k \in Kinds, n \in 1..MaxLayouts}
JoinEvents ==
    {Event("join", k, TRUE, n) : k \in Kinds, n \in 1..MaxLayouts}
      \cup {Event("join", "HH", FALSE, 1)}
LeaveEvents == {Event("leave", "HH", TRUE, 1)}
DisconnectEvents == {Event("disconnect", "HH", TRUE, 1)}
AllEvents == CreateEvents \cup JoinEvents \cup LeaveEvents \cup DisconnectEvents

Blank == [pc |-> "idle", op |-> "none", game |-> NoGame, id |-> NoId,
          wa |-> FALSE, i |-> 0, kind |-> "HH", cinf |-> TRUE, nl |-> 1,
          status |-> "active"]

Emit(ev, to, status) == [ev |-> ev, to |-> to, status |-> status]

\* an exception that leaves the handler or task of thread t
Exc(t, what) == [ev |-> "exception", to |-> {t}, status |-> what]

\* no thread is inside a handler or task: nothing is held
NoLocks == [prog |-> [t \in Threads |-> <<>>], pos |-> [t \in Threads |-> 1],
            held |-> [t \in Threads |-> {}], q |-> 0]

\* ------------------------------------------------------------------ Init
InitRegistries ==
    /\ FREE_IDS = [i \in 1..MaxGames |-> i - 1]
    /\ FREE_MAP = [i \in Ids |-> TRUE]
    /\ GAMES = [i \in Ids |-> NoGame]
    /\ ACTIVE_GAMES = {}
    /\ WAITING_GAMES = <<>>
    /\ USERS = {}
    /\ USER_ROOMS = [u \in Users |-> NoId]
    /\ rooms = [i \in Ids |-> {}]
    /\ heap = [o \in 1..MaxObjs |-> DeadGame]
    /\ th = [t \in Threads |-> Blank]
    /\ sess = [u \in Users |-> "new"]
    /\ lastOut = Emit("none", {}, "none")


\* ------------------------------------------------------- thread plumbing
G(t) == heap[th[t].game]

\* the handler returns (the `with USERS[user_id]` block is left)
Return(t) == [th EXCEPT ![t] = Blank]

\* socketio.start_background_task(play_game, game): the lowest free task slot
FreeTask == {p \in PlayTh : th[p].pc = "idle"}
NewTask == CHOOSE p \in FreeTask : \A q \in FreeTask : p <= q
Spawn(thr, g) == [thr EXCEPT ![NewTask] = [Blank EXCEPT !.pc = "tick", !.op = "play", !.game = g]]

\* Python reclaims an object no thread and no registry entry refers to
Gc(h, thr, games) ==
    [o \in DOMAIN h |->
        IF (\E t \in Threads : thr[t].game = o) \/ (\E i \in Ids : games[i] = o)
        THEN h[o] ELSE DeadGame]

FreeSlots == {o \in DOMAIN heap : heap[o] = DeadGame}
NewSlot == CHOOSE o \in FreeSlots : \A q \in FreeSlots : o <= q

\* ThreadSafeDict.__delitem__ on USER_ROOMS: absent keys are ignored
DelRoom(ur, p) == IF p \in Users THEN [ur EXCEPT ![p] = NoId] ELSE ur

\* get_game: GAMES.get(game_id, None)
get_game(id) == IF id \in Ids THEN GAMES[id] ELSE NoGame

\* ------------------------------------------------------------ connection
\* on_connect
Connect(u) ==
    /\ sess[u] = "new"
    /\ u \notin USERS
    /\ USERS' = USERS \cup {u}
    /\ sess' = [sess EXCEPT ![u] = "open"]
    /\ UNCHANGED <<FREE_IDS, FREE_MAP, GAMES, ACTIVE_GAMES, WAITING_GAMES,
                   USER_ROOMS, rooms, heap, th, script, budget, lastOut, npc, lk>>

FirstPc(op) ==
    CASE op = "create" -> "cr_game"
      [] op = "join" -> "jn_game"
      [] OTHER -> "lv_game"

\* a create / join / leave / disconnect event arrives: the handler takes
\* USERS[user_id] and reads get_curr_room(user_id)
Begin(u) ==
    /\ sess[u] = "open"
    /\ th[u].pc = "idle"
    /\ script[u] # <<>>
    /\ budget > 0
    /\ \E e \in Head(script[u]) :
         th' = [th EXCEPT ![u] = [Blank EXCEPT !.pc = FirstPc(e.op), !.op = e.op,
                                               !.kind = e.kind, !.cinf = e.cinf,
                                               !.nl = e.nl, !.id = USER_ROOMS[u]]]
    /\ script' = [script EXCEPT ![u] = Tail(@)]
    /\ budget' = budget - 1
    /\ UNCHANGED <<FREE_IDS, FREE_MAP, GAMES, ACTIVE_GAMES, WAITING_GAMES, USERS,
                   USER_ROOMS, rooms, heap, sess, lastOut, npc, lk>>

\* ------------------------------------------------------- try_create_game
\* on_create: curr_game = get_curr_game(user_id); return if in a game
CreateCurrGame(u) ==
    /\ th[u].pc = "cr_game"
    /\ th' = IF get_game(th[u].id) # NoGame THEN Return(u)
             ELSE [th EXCEPT ![u].pc = "tc_get", ![u].id = NoId]
    /\ UNCHANGED <<FREE_IDS, FREE_MAP, GAMES, ACTIVE_GAMES, WAITING_GAMES, USERS,
                   USER_ROOMS, rooms, heap, script, budget, sess, lastOut, npc, lk>>

\* a faulty try_create_game: queue.Empty is swallowed, nothing is emitted
TryCreateGet_Silent(u) ==
    /\ th[u].pc = "tc_get"
    /\ IF FREE_IDS = <<>>
       THEN /\ th' = Return(u)
            /\ UNCHANGED <<FREE_IDS, lastOut>>
       ELSE /\ FREE_IDS' = Tail(FREE_IDS)
            /\ th' = [th EXCEPT ![u].pc = "tc_new", ![u].id = Head(FREE_IDS)]
            /\ UNCHANGED lastOut
    /\ UNCHANGED <<FREE_MAP, GAMES, ACTIVE_GAMES, WAITING_GAMES, USERS,
                   USER_ROOMS, rooms, heap, script, budget, sess, npc, lk>>

\* curr_id = FREE_IDS.get(block=False); queue.Empty -> "Server at max capacity"
TryCreateGet(u) ==
    /\ th[u].pc = "tc_get"
    /\ IF FREE_IDS = <<>>
       THEN /\ lastOut' = Emit("creation_failed", {u}, "capacity")
            /\ th' = Return(u)
            /\ UNCHANGED FREE_IDS
       ELSE /\ FREE_IDS' = Tail(FREE_IDS)
            /\ th' = [th EXCEPT ![u].pc = "tc_new", ![u].id = Head(FREE_IDS)]
            /\ UNCHANGED lastOut
    /\ UNCHANGED <<FREE_MAP, GAMES, ACTIVE_GAMES, WAITING_GAMES, USERS,
                   USER_ROOMS, rooms, heap, script, budget, sess, npc, lk>>

\* assert FREE_MAP[curr_id]; game = game_cls(id=curr_id, **kwargs)
TryCreateNew(u) ==
    /\ th[u].pc = "tc_new"
    /\ IF ~FREE_MAP[th[u].id]
       THEN /\ lastOut' = Emit("creation_failed", {u}, "assertion")
            /\ th' = Return(u)
            /\ UNCHANGED heap
       ELSE IF get_policy_raises(th[u].kind)
       THEN /\ lastOut' = Emit("creation_failed", {u}, "ioerror")
            /\ th' = Return(u)
            /\ UNCHANGED heap
       ELSE /\ FreeSlots # {}
            /\ heap' = [heap EXCEPT ![NewSlot] = NewGame(th[u].id, th[u].kind, th[u].nl)]
            /\ th' = [th EXCEPT ![u].pc = "tc_reg", ![u].game = NewSlot,
                                ![u].kind = Blank.kind, ![u].nl = Blank.nl,
                                ![u].cinf = Blank.cinf]
            /\ UNCHANGED lastOut
    /\ UNCHANGED <<FREE_IDS, FREE_MAP, GAMES, ACTIVE_GAMES, WAITING_GAMES, USERS,
                   USER_ROOMS, rooms, script, budget, sess, npc, lk>>

\* GAMES[game.id] = game
TryCreateReg(u) ==
    /\ th[u].pc = "tc_reg"
    /\ GAMES' = [GAMES EXCEPT ![th[u].id] = th[u].game]
    /\ th' = [th EXCEPT ![u].pc = "tc_map"]
    /\ heap' = Gc(heap, th', GAMES')
    /\ UNCHANGED <<FREE_IDS, FREE_MAP, ACTIVE_GAMES, WAITING_GAMES, USERS,
                   USER_ROOMS, rooms, script, budget, sess, lastOut, npc, lk>>

\* FREE_MAP[game.id] = False
TryCreateMap(u) ==
    /\ th[u].pc = "tc_map"
    /\ FREE_MAP' = [FREE_MAP EXCEPT ![th[u].id] = FALSE]
    /\ th' = [th EXCEPT ![u].pc = "cg_add"]
    /\ UNCHANGED <<FREE_IDS, GAMES, ACTIVE_GAMES, WAITING_GAMES, USERS,
                   USER_ROOMS, rooms, heap, script, budget, sess, lastOut, npc, lk>>

\* ---------------------------------------------------------- _create_game
\* a faulty _create_game that activates a full game at once and does not
\* attach its creator as a spectator
CreateAdd_Unattended(u) ==
    LET g == G(u) IN
    /\ th[u].pc = "cg_add"
    /\ ~g.lock
    /\ heap' = [heap EXCEPT ![th[u].game] =
                  [(IF ~is_full(g) THEN add_player(g, u, NoIdx, TRUE)
                    ELSE activate(g)) EXCEPT !.lock = TRUE]]
    /\ rooms' = [rooms EXCEPT ![g.id] = @ \cup {u}]
    /\ USER_ROOMS' = [USER_ROOMS EXCEPT ![u] = g.id]
    /\ th' = [th EXCEPT ![u].pc = "cg_ready"]
    /\ UNCHANGED <<FREE_IDS, FREE_MAP, GAMES, ACTIVE_GAMES, WAITING_GAMES, USERS,
                   script, budget, sess, lastOut, npc, lk>>

\* with game.lock: add the user as player or spectator, join_room, set_curr_room
CreateAdd(u) ==
    LET g == G(u) IN
    /\ th[u].pc = "cg_add"
    /\ ~g.lock
    /\ IF ~is_full(g) /\ add_player_raises(g)
       THEN \* ValueError out of add_player: the lock is released, the handler dies
            /\ th' = Return(u)
            /\ heap' = Gc(heap, th', GAMES)
            /\ lastOut' = Exc(u, "add_player")
            /\ UNCHANGED <<rooms, USER_ROOMS>>
       ELSE /\ heap' = [heap EXCEPT ![th[u].game] =
                          [(IF ~is_full(g) THEN add_player(g, u, NoIdx, TRUE)
                            ELSE add_spectator(g, u)) EXCEPT !.lock = TRUE]]
            /\ rooms' = [rooms EXCEPT ![g.id] = @ \cup {u}]
            /\ USER_ROOMS' = [USER_ROOMS EXCEPT ![u] = g.id]
            /\ th' = [th EXCEPT ![u].pc = "cg_ready"]
            /\ UNCHANGED lastOut
    /\ UNCHANGED <<FREE_IDS, FREE_MAP, GAMES, ACTIVE_GAMES, WAITING_GAMES, USERS,
                   script, budget, sess, npc, lk>>

\* the tail shared by _create_game and on_join, run while holding game.lock:
\* activate and start the tick loop if the game is ready, else enqueue as waiting
StartOrWait(u, g, spectating) ==
    IF is_ready(g)
    THEN IF activate_raises(g)
         THEN /\ th' = Return(u)
              /\ heap' = Gc([heap EXCEPT ![th[u].game] = [activate(g) EXCEPT !.lock = FALSE]],
                            th', GAMES)
              /\ lastOut' = Exc(u, "activate")
              /\ UNCHANGED <<ACTIVE_GAMES, WAITING_GAMES>>
         ELSE /\ FreeTask # {}
              /\ heap' = [heap EXCEPT ![th[u].game] = [activate(g) EXCEPT !.lock = FALSE]]
              /\ ACTIVE_GAMES' = ACTIVE_GAMES \cup {g.id}
              /\ lastOut' = Emit("start_game", rooms[g.id], IF spectating THEN "spectating" ELSE "playing")
              /\ th' = Spawn(Return(u), th[u].game)
              /\ UNCHANGED WAITING_GAMES
    ELSE /\ th' = Return(u)
         /\ heap' = Gc([heap EXCEPT ![th[u].game] = [g EXCEPT !.lock = FALSE]], th', GAMES)
         /\ WAITING_GAMES' = Append(WAITING_GAMES, g.id)
         /\ lastOut' = Emit("waiting", rooms[g.id], "in_game")
         /\ UNCHANGED ACTIVE_GAMES

CreateReady(u) ==
    /\ th[u].pc = "cg_ready"
    /\ StartOrWait(u, G(u), u \in G(u).spectators)
    /\ UNCHANGED <<FREE_IDS, FREE_MAP, GAMES, USERS, USER_ROOMS, rooms, script, budget,
                   sess, npc, lk>>


\* ---------------------------------------------------------------- on_join
\* a faulty on_join that does not look at the user's current game
JoinCurrGame_Always(u) ==
    /\ th[u].pc = "jn_game"
    /\ th' = [th EXCEPT ![u].pc = "gw_pop", ![u].id = NoId]
    /\ UNCHANGED <<FREE_IDS, FREE_MAP, GAMES, ACTIVE_GAMES, WAITING_GAMES, USERS,
                   USER_ROOMS, rooms, heap, script, budget, sess, lastOut, npc, lk>>

\* curr_game = get_curr_game(user_id); return if in a game
JoinCurrGame(u) ==
    /\ th[u].pc = "jn_game"
    /\ th' = IF get_game(th[u].id) # NoGame THEN Return(u)
             ELSE [th EXCEPT ![u].pc = "gw_pop", ![u].id = NoId]
    /\ UNCHANGED <<FREE_IDS, FREE_MAP, GAMES, ACTIVE_GAMES, WAITING_GAMES, USERS,
                   USER_ROOMS, rooms, heap, script, budget, sess, lastOut, npc, lk>>

\* on_join with no waiting game: _create_game if create_if_not_found, else
\* emit("waiting", {"in_game": False})
NotFound(u) ==
    IF th[u].cinf
    THEN /\ th' = [th EXCEPT ![u].pc = "tc_get", ![u].id = NoId]
         /\ UNCHANGED lastOut
    ELSE /\ th' = Return(u)
         /\ lastOut' = Emit("waiting", {u}, "not_in_game")

\* get_waiting_game: waiting_id = WAITING_GAMES.get(block=False)
WaitingPop(u) ==
    /\ th[u].pc = "gw_pop"
    /\ IF WAITING_GAMES = <<>>
       THEN NotFound(u) /\ UNCHANGED WAITING_GAMES
       ELSE /\ WAITING_GAMES' = Tail(WAITING_GAMES)
            /\ th' = [th EXCEPT ![u].pc = "gw_free", ![u].id = Head(WAITING_GAMES)]
            /\ UNCHANGED lastOut
    /\ UNCHANGED <<FREE_IDS, FREE_MAP, GAMES, ACTIVE_GAMES, USERS,
                   USER_ROOMS, rooms, heap, script, budget, sess, npc, lk>>

\* get_waiting_game: while FREE_MAP[waiting_id]
WaitingFree(u) ==
    /\ th[u].pc = "gw_free"
    /\ th' = [th EXCEPT ![u].pc = IF FREE_MAP[th[u].id] THEN "gw_pop" ELSE "gw_game"]
    /\ UNCHANGED <<FREE_IDS, FREE_MAP, GAMES, ACTIVE_GAMES, WAITING_GAMES, USERS,
                   USER_ROOMS, rooms, heap, script, budget, sess, lastOut, npc, lk>>

\* get_waiting_game: return get_game(waiting_id)
WaitingGame(u) ==
    /\ th[u].pc = "gw_game"
    /\ IF get_game(th[u].id) = NoGame
       THEN NotFound(u)
       ELSE /\ th' = [th EXCEPT ![u].pc = "jn_room", ![u].game = get_game(th[u].id)]
            /\ UNCHANGED lastOut
    /\ UNCHANGED <<FREE_IDS, FREE_MAP, GAMES, ACTIVE_GAMES, WAITING_GAMES, USERS,
                   USER_ROOMS, rooms, heap, script, budget, sess, npc, lk>>

\* with game.lock: join_room(game.id); set_curr_room(user_id, game.id)
JoinRoom(u) ==
    LET g == G(u) IN
    /\ th[u].pc = "jn_room"
    /\ ~g.lock
    /\ heap' = [heap EXCEPT ![th[u].game].lock = TRUE]
    /\ rooms' = [rooms EXCEPT ![g.id] = @ \cup {u}]
    /\ USER_ROOMS' = [USER_ROOMS EXCEPT ![u] = g.id]
    /\ th' = [th EXCEPT ![u].pc = "jn_add"]
    /\ UNCHANGED <<FREE_IDS, FREE_MAP, GAMES, ACTIVE_GAMES, WAITING_GAMES, USERS,
                   script, budget, sess, lastOut, npc, lk>>

\* game.add_player(user_id), then activate or keep waiting
JoinAdd(u) ==
    LET g == G(u) IN
    /\ th[u].pc = "jn_add"
    /\ IF add_player_raises(g)
       THEN /\ th' = Return(u)
            /\ heap' = Gc([heap EXCEPT ![th[u].game].lock = FALSE], th', GAMES)
            /\ lastOut' = Exc(u, "add_player")
            /\ UNCHANGED <<ACTIVE_GAMES, WAITING_GAMES>>
       ELSE StartOrWait(u, add_player(g, u, NoIdx, TRUE), FALSE)
    /\ UNCHANGED <<FREE_IDS, FREE_MAP, GAMES, USERS, USER_ROOMS, rooms, script, budget,
                   sess, npc, lk>>

\* ------------------------------------------------- _leave_game / on_leave
\* the epilogue of on_leave / on_disconnect after _leave_game has returned
Epilogue(thr, u) == [thr EXCEPT ![u].pc = "lv_end", ![u].game = NoGame, ![u].id = NoId, ![u].i = 0]

\* an exception leaves the handler: on_leave emits nothing, on_disconnect
\* skips `del USERS[user_id]`; the connection itself is gone after a disconnect
Raised(t) ==
    /\ th' = Return(t)
    /\ sess' = IF th[t].op = "disconnect" THEN [sess EXCEPT ![t] = "closed"] ELSE sess
    /\ script' = IF th[t].op = "disconnect" THEN [script EXCEPT ![t] = <<>>] ELSE script
    /\ UNCHANGED budget

\* game = get_curr_game(user_id); if not game: return False
LeaveCurrGame(u) ==
    /\ th[u].pc = "lv_game"
    /\ th' = IF get_game(th[u].id) = NoGame
             THEN Epilogue([th EXCEPT ![u].wa = FALSE], u)
             ELSE [th EXCEPT ![u].pc = "lv_lock", ![u].game = get_game(th[u].id)]
    /\ UNCHANGED <<FREE_IDS, FREE_MAP, GAMES, ACTIVE_GAMES, WAITING_GAMES, USERS,
                   USER_ROOMS, rooms, heap, script, budget, sess, lastOut, npc, lk>>

\* with game.lock: leave_room(game.id); leave_curr_room(user_id)
LeaveLock(u) ==
    LET g == G(u) IN
    /\ th[u].pc = "lv_lock"
    /\ ~g.lock
    /\ heap' = [heap EXCEPT ![th[u].game].lock = TRUE]
    /\ rooms' = [rooms EXCEPT ![g.id] = @ \ {u}]
    /\ USER_ROOMS' = DelRoom(USER_ROOMS, u)
    /\ th' = [th EXCEPT ![u].pc = "lv_rm"]
    /\ UNCHANGED <<FREE_IDS, FREE_MAP, GAMES, ACTIVE_GAMES, WAITING_GAMES, USERS,
                   script, budget, sess, lastOut, npc, lk>>

\* remove the user from the game, was_active = game.id in ACTIVE_GAMES, and
\* the branch on the transition the leave caused (cleanup_game continues below)
LeaveRemove(u) ==
    LET g == G(u)
        raises == IF InPlayers(g, u) THEN remove_player_raises(g, u)
                  ELSE remove_spectator_raises(g, u)
        g1 == IF InPlayers(g, u) THEN remove_player(g, u) ELSE remove_spectator(g, u)
        was_active == g.id \in ACTIVE_GAMES
    IN
    /\ th[u].pc = "lv_rm"
    /\ IF raises
       THEN /\ Raised(u)
            /\ heap' = Gc([heap EXCEPT ![th[u].game].lock = FALSE], th', GAMES)
            /\ lastOut' = Exc(u, "remove")
       ELSE IF was_active /\ is_empty(g1)
       THEN /\ th' = Epilogue([th EXCEPT ![u].wa = was_active], u)
            /\ heap' = Gc([heap EXCEPT ![th[u].game] = [deactivate(g1) EXCEPT !.lock = FALSE]],
                          th', GAMES)
            /\ UNCHANGED <<lastOut, sess, script, budget>>
       ELSE IF is_empty(g1)
       THEN /\ heap' = [heap EXCEPT ![th[u].game] = g1]
            /\ th' = [th EXCEPT ![u].pc = "cl_chk", ![u].wa = was_active]
            /\ UNCHANGED <<lastOut, sess, script, budget>>
       ELSE IF ~was_active
       THEN /\ th' = Epilogue([th EXCEPT ![u].wa = was_active], u)
            /\ heap' = Gc([heap EXCEPT ![th[u].game] = [g1 EXCEPT !.lock = FALSE]], th', GAMES)
            /\ lastOut' = Emit("waiting", rooms[g.id], "in_game")
            /\ UNCHANGED <<sess, script, budget>>
       ELSE IF is_ready(g1)
       THEN /\ th' = Epilogue([th EXCEPT ![u].wa = was_active], u)
            /\ heap' = Gc([heap EXCEPT ![th[u].game] = [g1 EXCEPT !.lock = FALSE]], th', GAMES)
            /\ UNCHANGED <<lastOut, sess, script, budget>>
       ELSE /\ th' = Epilogue([th EXCEPT ![u].wa = was_active], u)
            /\ heap' = Gc([heap EXCEPT ![th[u].game] = [deactivate(g1) EXCEPT !.lock = FALSE]],
                          th', GAMES)
            /\ UNCHANGED <<lastOut, sess, script, budget>>
    /\ UNCHANGED <<FREE_IDS, FREE_MAP, GAMES, ACTIVE_GAMES, WAITING_GAMES, USERS,
                   USER_ROOMS, rooms, npc, lk>>

\* on_leave: emit end_game{DONE} if was_active else end_lobby;
\* on_disconnect: del USERS[user_id]
LeaveEnd(u) ==
    /\ th[u].pc = "lv_end"
    /\ th' = Return(u)
    /\ IF th[u].op = "leave"
       THEN /\ lastOut' = IF th[u].wa THEN Emit("end_game", {u}, "done")
                           ELSE Emit("end_lobby", {u}, "none")
            /\ UNCHANGED <<USERS, sess, script, budget>>
       ELSE /\ USERS' = USERS \ {u}
            /\ sess' = [sess EXCEPT ![u] = "closed"]
            /\ script' = [script EXCEPT ![u] = <<>>]
            /\ UNCHANGED <<lastOut, budget>>
    /\ UNCHANGED <<FREE_IDS, FREE_MAP, GAMES, ACTIVE_GAMES, WAITING_GAMES,
                   USER_ROOMS, rooms, heap, npc, lk>>

\* ------------------------------------------------------------ cleanup_game
\* (run by a leave / disconnect handler or by a play_game task, holding game.lock)
\* a faulty cleanup_game without the double-free check
CleanupCheck_NoCheck(t) ==
    LET g == G(t) IN
    /\ th[t].pc = "cl_chk"
    /\ th' = [th EXCEPT ![t].pc = IF Len(g.players) > 0 THEN "cl_loop" ELSE "cl_map",
                        ![t].i = 1]
    /\ UNCHANGED <<FREE_IDS, FREE_MAP, GAMES, ACTIVE_GAMES, WAITING_GAMES, USERS,
                   USER_ROOMS, rooms, heap, sess, script, budget, lastOut, npc, lk>>

\* if FREE_MAP[game.id]: raise ValueError("Double free on a game")
CleanupCheck(t) ==
    LET g == G(t) IN
    /\ th[t].pc = "cl_chk"
    /\ IF FREE_MAP[g.id]
       THEN /\ Raised(t)
            /\ heap' = Gc([heap EXCEPT ![th[t].game].lock = FALSE], th', GAMES)
            /\ lastOut' = Exc(t, "double_free")
       ELSE /\ th' = [th EXCEPT ![t].pc = IF Len(g.players) > 0 THEN "cl_loop" ELSE "cl_map",
                                ![t].i = 1]
            /\ UNCHANGED <<heap, sess, script, budget, lastOut>>
    /\ UNCHANGED <<FREE_IDS, FREE_MAP, GAMES, ACTIVE_GAMES, WAITING_GAMES, USERS,
                   USER_ROOMS, rooms, npc, lk>>

\* for user_id in game.players: leave_curr_room(user_id)
CleanupLoop(t) ==
    LET g == G(t) IN
    /\ th[t].pc = "cl_loop"
    /\ USER_ROOMS' = DelRoom(USER_ROOMS, g.players[th[t].i])
    /\ th' = [th EXCEPT ![t].pc = IF th[t].i < Len(g.players) THEN "cl_loop" ELSE "cl_map",
                        ![t].i = @ + 1]
    /\ UNCHANGED <<FREE_IDS, FREE_MAP, GAMES, ACTIVE_GAMES, WAITING_GAMES, USERS,
                   rooms, heap, script, budget, sess, lastOut, npc, lk>>

\* socketio.close_room(game.id); FREE_MAP[game.id] = True
CleanupMap(t) ==
    LET g == G(t) IN
    /\ th[t].pc = "cl_map"
    /\ rooms' = [rooms EXCEPT ![g.id] = {}]
    /\ FREE_MAP' = [FREE_MAP EXCEPT ![g.id] = TRUE]
    /\ th' = [th EXCEPT ![t].pc = "cl_put"]
    /\ UNCHANGED <<FREE_IDS, GAMES, ACTIVE_GAMES, WAITING_GAMES, USERS,
                   USER_ROOMS, heap, script, budget, sess, lastOut, npc, lk>>

\* a faulty cleanup_game that does not give the id back to the pool
CleanupPut_Lost(t) ==
    /\ th[t].pc = "cl_put"
    /\ th' = [th EXCEPT ![t].pc = "cl_del"]
    /\ UNCHANGED <<FREE_IDS, FREE_MAP, GAMES, ACTIVE_GAMES, WAITING_GAMES, USERS,
                   USER_ROOMS, rooms, heap, script, budget, sess, lastOut, npc, lk>>

\* FREE_IDS.put(game.id): blocks while the queue holds MAX_GAMES entries
CleanupPut(t) ==
    LET g == G(t) IN
    /\ th[t].pc = "cl_put"
    /\ Len(FREE_IDS) < MaxGames
    /\ FREE_IDS' = Append(FREE_IDS, g.id)
    /\ heap' = [heap EXCEPT ![th[t].game].puts = @ + 1]
    /\ th' = [th EXCEPT ![t].pc = "cl_del"]
    /\ UNCHANGED <<FREE_MAP, GAMES, ACTIVE_GAMES, WAITING_GAMES, USERS,
                   USER_ROOMS, rooms, script, budget, sess, lastOut, npc, lk>>

\* del GAMES[game.id]
CleanupDel(t) ==
    LET g == G(t) IN
    /\ th[t].pc = "cl_del"
    /\ GAMES' = [GAMES EXCEPT ![g.id] = NoGame]
    /\ th' = [th EXCEPT ![t].pc = "cl_act"]
    /\ heap' = Gc(heap, th', GAMES')
    /\ UNCHANGED <<FREE_IDS, FREE_MAP, ACTIVE_GAMES, WAITING_GAMES, USERS,
                   USER_ROOMS, rooms, script, budget, sess, lastOut, npc, lk>>

\* if game.id in ACTIVE_GAMES: ACTIVE_GAMES.remove(game.id); the lock is released
CleanupActive(t) ==
    LET g == G(t) IN
    /\ th[t].pc = "cl_act"
    /\ ACTIVE_GAMES' = ACTIVE_GAMES \ {g.id}
    /\ th' = IF t \in Users THEN Epilogue(th, t) ELSE Return(t)
    /\ heap' = Gc([heap EXCEPT ![th[t].game].lock = FALSE], th', GAMES)
    /\ UNCHANGED <<FREE_IDS, FREE_MAP, GAMES, WAITING_GAMES, USERS,
                   USER_ROOMS, rooms, script, budget, sess, lastOut, npc, lk>>

\* --------------------------------------------------------------- play_game
\* Game.tick / OvercookedGame.tick under game.lock; `elapsed` is
\* _curr_game_over(), the phase timer read against the wall clock
tick_status(g, elapsed) ==
    IF ~g.active THEN "inactive"
    ELSE IF elapsed /\ g.layouts > 0 THEN "reset"
    ELSE IF elapsed THEN "done"
    ELSE "active"

\* the game after tick(): a reset deactivates and activates again
tick_game(g, elapsed) ==
    IF tick_status(g, elapsed) = "reset" THEN activate(deactivate(g)) ELSE g

\* tick() raises: in a reset, activate finds the player sets inconsistent
\* with the slots; otherwise apply_actions calls get on the EMPTY marker that
\* stands in pending_actions for a vacated slot
tick_raises(g, elapsed) ==
    /\ g.active
    /\ IF tick_status(g, elapsed) = "reset" THEN activate_raises(deactivate(g))
       ELSE InPlayers(g, EMPTY)

\* while status != DONE and status != INACTIVE: with game.lock: status = game.tick()
\* (play_game catches nothing: an exception out of tick() ends the task)
PlayTick(t) ==
    LET g == G(t) IN
    /\ th[t].pc = "tick"
    /\ ~g.lock
    /\ \E elapsed \in BOOLEAN :
         IF tick_raises(g, elapsed)
         THEN /\ th' = Return(t)
              /\ heap' = Gc([heap EXCEPT ![th[t].game] = tick_game(g, elapsed)], th', GAMES)
              /\ lastOut' = Exc(t, "tick")
         ELSE /\ heap' = [heap EXCEPT ![th[t].game] = tick_game(g, elapsed)]
              /\ th' = [th EXCEPT ![t].status = tick_status(g, elapsed),
                                  ![t].pc = IF tick_status(g, elapsed) \in {"done", "inactive"}
                                            THEN "end" ELSE "tick"]
              /\ UNCHANGED lastOut
    /\ UNCHANGED <<FREE_IDS, FREE_MAP, GAMES, ACTIVE_GAMES, WAITING_GAMES, USERS,
                   USER_ROOMS, rooms, script, budget, sess, npc, lk>>

\* with game.lock: emit end_game{status}; deactivate unless INACTIVE; cleanup_game
PlayEnd(t) ==
    LET g == G(t) IN
    /\ th[t].pc = "end"
    /\ ~g.lock
    /\ lastOut' = Emit("end_game", rooms[g.id], th[t].status)
    /\ heap' = [heap EXCEPT ![th[t].game] =
                  [(IF th[t].status # "inactive" THEN deactivate(g) ELSE g) EXCEPT !.lock = TRUE]]
    /\ th' = [th EXCEPT ![t].pc = "cl_chk"]
    /\ UNCHANGED <<FREE_IDS, FREE_MAP, GAMES, ACTIVE_GAMES, WAITING_GAMES, USERS,
                   USER_ROOMS, rooms, script, budget, sess, npc, lk>>

\* ------------------------------------------- tick loop and NPC worker
\* One session with a human in slot 0 and an automated player in slot 1, from
\* its activation on.  The fields of npc:
\*   active, layouts, tpa, curr_tick, state   the fields of the Game object
\*   stq     npc_state_queues[policy_id], a LifoQueue (top = last element)
\*   actq    pending_actions[1], a Queue(maxsize = NpcBuffSize)
\*   w       the thread running npc_policy_consumer: pc and the state it took
\*   pc, caller, ret, late   the thread holding game.lock: its position, who
\*           called deactivate, where a leave returns to, whether the timer
\*           was seen elapsed in this tick
\*   used, prev   the automated player's action of the last joint action and
\*           the state that joint action was applied to
\*   hq      pending_actions[0], the human's Queue(maxsize = -1): unbounded
\*   usedH   the human's action of the joint action being built; seen: the
\*           number of actions that were pending when the tick took it
\*   inslot  the human still holds player slot 0
\*   h       the on_action handler: position, the sender ("H" the human
\*           player, "S" a spectator), the action sent, and how the last
\*           call ended: "rejected" (an early return), "queued", or
\*           "raised" (an exception left enqueue_action); acts counts the
\*           action events still to come
\*   newest  the state most recently put on the NPC's state queue
\* An environment state is the layout it belongs to and the number of
\* transitions since the start state; an action is tagged with the state the
\* policy computed it from.
NoState == [layout |-> 0, t |-> 0]
StartState(k) == [layout |-> k, t |-> 0]
Transition(st) == [st EXCEPT !.t = @ + 1]
PolicyAction(st) == [of |-> st]
NoAction == PolicyAction(NoState)

DeadWorker == [pc |-> "dead", s |-> NoState]

\* the actions a client sends, and Action.STAY, the default of a joint action
HumanActs == {"UP", "SPACE"}
STAY == "STAY"
IdleHandler == [pc |-> "idle", p |-> "H", a |-> STAY, res |-> "none"]
Returned(res) == [IdleHandler EXCEPT !.res = res]

NpcIdle == [pc |-> "off", caller |-> "none", ret |-> "off", late |-> FALSE,
            active |-> FALSE, layouts |-> 0, tpa |-> 1, curr_tick |-> 0,
            state |-> NoState, stq |-> <<>>, actq |-> <<>>, w |-> DeadWorker,
            used |-> NoAction, prev |-> NoState,
            hq |-> <<>>, usedH |-> STAY, inslot |-> FALSE, h |-> IdleHandler,
            acts |-> 0, newest |-> NoState, seen |-> 0]

\* OvercookedGame.__init__ with playerOne automated, and the human added
NewNpc(nl, tpa) ==
    [NpcIdle EXCEPT !.pc = "tick", !.layouts = nl, !.tpa = tpa,
                    !.inslot = TRUE, !.acts = MaxActs]

\* OvercookedGame.activate: pop a layout, the start state, curr_tick = 0, put
\* the state on the NPC's state queue and start its worker thread
NpcActivate(n) ==
    [n EXCEPT !.active = TRUE, !.layouts = @ - 1,
              !.state = StartState(n.layouts), !.curr_tick = 0,
              !.stq = Append(@, StartState(n.layouts)),
              !.newest = StartState(n.layouts),
              !.w = [pc |-> "loop", s |-> NoState]]

\* _curr_game_over(): the timer of a layout has run out after MaxTicks ticks
\* at the latest, and once it has run out it stays so
Elapsed(n) == IF n.late \/ n.curr_tick >= MaxTicks THEN {TRUE} ELSE BOOLEAN

\* OvercookedGame.tick up to apply_actions: curr_tick += 1, INACTIVE for an
\* inactive game, reset() if needs_reset()
TickBegin ==
    /\ npc.pc = "tick"
    /\ \E elapsed \in Elapsed(npc) :
         npc' = [npc EXCEPT
                   !.curr_tick = @ + 1,
                   !.late = elapsed,
                   !.caller = IF npc.active /\ elapsed /\ npc.layouts > 0
                              THEN "reset" ELSE @,
                   !.pc = IF ~npc.active THEN "over"
                          ELSE IF elapsed /\ npc.layouts > 0 THEN "d_flag"
                          ELSE "aa_hum"]
    /\ UNCHANGED lifeVars

\* a tick that takes the newest pending action of the human instead
ApplyHuman_Newest ==
    /\ npc.pc = "aa_hum"
    /\ npc' = [npc EXCEPT !.usedH = IF npc.hq = <<>> THEN STAY
                                    ELSE npc.hq[Len(npc.hq)],
                          !.hq = IF npc.hq = <<>> THEN <<>>
                                 ELSE SubSeq(npc.hq, 1, Len(npc.hq) - 1),
                          !.seen = Len(npc.hq),
                          !.pc = "aa_get"]
    /\ UNCHANGED lifeVars

\* apply_actions for the human's slot: pending_actions[i].get(block=False),
\* Action.STAY on queue.Empty
ApplyHuman ==
    /\ npc.pc = "aa_hum"
    /\ npc' = [npc EXCEPT !.usedH = IF npc.hq = <<>> THEN STAY ELSE Head(npc.hq),
                          !.hq = IF npc.hq = <<>> THEN <<>> ELSE Tail(npc.hq),
                          !.seen = Len(npc.hq),
                          !.pc = "aa_get"]
    /\ UNCHANGED lifeVars

\* apply_actions: joint_action[i] = pending_actions[i].get(block=True) for the
\* automated player, then the state transition
ApplyGet ==
    /\ npc.pc = "aa_get"
    /\ npc.actq # <<>>
    /\ npc' = [npc EXCEPT !.actq = Tail(@), !.used = Head(npc.actq),
                          !.prev = npc.state, !.state = Transition(@),
                          !.pc = "aa_put"]
    /\ UNCHANGED lifeVars

\* apply_actions: the new state goes to the NPC every ticks_per_ai_action
\* ticks; tick returns DONE if is_finished() else ACTIVE
ApplyPut ==
    /\ npc.pc = "aa_put"
    /\ \E elapsed \in Elapsed(npc) :
         npc' = [npc EXCEPT
                   !.stq = IF npc.curr_tick % npc.tpa = 0 THEN Append(@, npc.state) ELSE @,
                   !.newest = IF npc.curr_tick % npc.tpa = 0 THEN npc.state ELSE @,
                   !.late = FALSE,
                   !.pc = IF elapsed /\ npc.layouts = 0 THEN "end" ELSE "tick"]
    /\ UNCHANGED lifeVars

\* play_game after DONE: with game.lock: game.deactivate()
TickEnd ==
    /\ npc.pc = "end"
    /\ npc' = [npc EXCEPT !.pc = "d_flag", !.caller = "end"]
    /\ UNCHANGED lifeVars

\* _leave_game: the human leaves the active session: remove_player, then
\* game.deactivate(), under game.lock, which no tick holds at that time
LeaveDeactivate ==
    /\ npc.pc \in {"tick", "end"}
    /\ npc.active
    /\ npc' = [npc EXCEPT !.pc = "d_flag", !.caller = "leave", !.ret = npc.pc,
                          !.inslot = FALSE, !.hq = <<>>]
    /\ UNCHANGED lifeVars

\* Game.deactivate: _is_active = False
DeactivateFlag ==
    /\ npc.pc = "d_flag"
    /\ npc' = [npc EXCEPT !.active = FALSE, !.pc = "d_put"]
    /\ UNCHANGED lifeVars

\* OvercookedGame.deactivate: npc_state_queues[npc_policy].put(self.state)
DeactivatePut ==
    /\ npc.pc = "d_put"
    /\ npc' = [npc EXCEPT !.stq = Append(@, npc.state), !.newest = npc.state,
                          !.pc = "d_join"]
    /\ UNCHANGED lifeVars

\* OvercookedGame.deactivate: t.join() and clear_pending_actions(); a reset
\* goes on with activate()
DeactivateJoin ==
    /\ npc.pc = "d_join"
    /\ npc.w.pc = "dead"
    /\ LET n == [npc EXCEPT !.actq = <<>>, !.caller = "none", !.ret = "off",
                            !.hq = IF npc.inslot THEN <<>> ELSE @,
                            !.late = FALSE] IN
       npc' = CASE npc.caller = "reset" -> [NpcActivate(n) EXCEPT !.pc = "tick"]
                [] npc.caller = "leave" -> [n EXCEPT !.pc = npc.ret]
                [] OTHER -> [n EXCEPT !.pc = "over"]
    /\ UNCHANGED lifeVars

\* npc_policy_consumer: while self._is_active
WorkerLoop ==
    /\ npc.w.pc = "loop"
    /\ npc' = [npc EXCEPT !.w.pc = IF npc.active THEN "get" ELSE "dead"]
    /\ UNCHANGED lifeVars

\* npc_policy_consumer: state = queue.get(); policy.action(state)
WorkerGet ==
    /\ npc.w.pc = "get"
    /\ npc.stq # <<>>
    /\ npc' = [npc EXCEPT !.stq = SubSeq(@, 1, Len(@) - 1),
                          !.w = [pc |-> "enq", s |-> npc.stq[Len(npc.stq)]]]
    /\ UNCHANGED lifeVars

\* Game.enqueue_action: return if not self.is_active
WorkerEnqueue ==
    /\ npc.w.pc = "enq"
    /\ npc' = [npc EXCEPT !.w = IF npc.active THEN [@ EXCEPT !.pc = "put"]
                                ELSE [pc |-> "loop", s |-> NoState]]
    /\ UNCHANGED lifeVars

\* Game.enqueue_action: pending_actions[player_idx].put(action), which blocks
\* while the queue is full
WorkerPut ==
    /\ npc.w.pc = "put"
    /\ Len(npc.actq) < NpcBuffSize
    /\ npc' = [npc EXCEPT !.actq = Append(@, PolicyAction(npc.w.s)),
                          !.w = [pc |-> "loop", s |-> NoState]]
    /\ UNCHANGED lifeVars

\* on_action: game = get_curr_game(user_id); game.enqueue_action(user_id, action)
ActionBegin ==
    /\ npc.h.pc = "idle"
    /\ npc.acts > 0
    /\ npc.pc # "over"
    /\ \E p \in {"H", "S"}, a \in HumanActs :
         npc' = [npc EXCEPT !.h = [pc |-> "chk", p |-> p, a |-> a, res |-> "none"], !.acts = @ - 1]
    /\ UNCHANGED lifeVars

\* the sender holds a player slot
HoldsSlot(n, p) == p = "H" /\ n.inslot

\* an enqueue_action that does not ask whether the sender holds a slot
EnqueueCheck_AnySender ==
    /\ npc.h.pc = "chk"
    /\ npc' = [npc EXCEPT !.h = IF npc.active
                                THEN [@ EXCEPT !.pc = "put"] ELSE Returned("rejected")]
    /\ UNCHANGED lifeVars

\* Game.enqueue_action: return if not self.is_active or player_id not in
\* self.players
EnqueueCheck ==
    /\ npc.h.pc = "chk"
    /\ npc' = [npc EXCEPT !.h = IF npc.active /\ HoldsSlot(npc, npc.h.p)
                                THEN [@ EXCEPT !.pc = "put"] ELSE Returned("rejected")]
    /\ UNCHANGED lifeVars

\* a faulty enqueue_action that puts the action in front of the pending ones
EnqueuePut_Front ==
    /\ npc.h.pc = "put"
    /\ npc' = [npc EXCEPT !.hq = IF HoldsSlot(npc, npc.h.p) THEN <<npc.h.a>> \o @ ELSE @,
                          !.h = Returned(IF HoldsSlot(npc, npc.h.p) THEN "queued"
                                         ELSE "raised")]
    /\ UNCHANGED lifeVars

\* Game.enqueue_action: player_idx = self.players.index(player_id), which
\* raises ValueError if the player was removed since the check;
\* pending_actions[player_idx].put(action) on the unbounded queue
EnqueuePut ==
    /\ npc.h.pc = "put"
    /\ npc' = [npc EXCEPT !.hq = IF HoldsSlot(npc, npc.h.p) THEN Append(@, npc.h.a) ELSE @,
                          !.h = Returned(IF HoldsSlot(npc, npc.h.p) THEN "queued"
                                         ELSE "raised")]
    /\ UNCHANGED lifeVars

\* -------------------------------------------------------- specifications

Init ==
    /\ InitRegistries
    /\ lk = NoLocks
    /\ script = [u \in Users |-> [k \in 1..MaxOps |-> AllEvents]]
    /\ budget = MaxEvents
    /\ npc = NpcIdle

Next ==
    \/ \E u \in Users : Connect(u)
    \/ \E u \in Users : Begin(u)
    \/ \E u \in Users : CreateCurrGame(u)
    \/ \E u \in Users : TryCreateGet(u)
    \/ \E u \in Users : TryCreateNew(u)
    \/ \E u \in Users : TryCreateReg(u)
    \/ \E u \in Users : TryCreateMap(u)
    \/ \E u \in Users : CreateAdd(u)
    \/ \E u \in Users : CreateReady(u)
    \/ \E u \in Users : JoinCurrGame(u)
    \/ \E u \in Users : WaitingPop(u)
    \/ \E u \in Users : WaitingFree(u)
    \/ \E u \in Users : WaitingGame(u)
    \/ \E u \in Users : JoinRoom(u)
    \/ \E u \in Users : JoinAdd(u)
    \/ \E u \in Users : LeaveCurrGame(u)
    \/ \E u \in Users : LeaveLock(u)
    \/ \E u \in Users : LeaveRemove(u)
    \/ \E u \in Users : LeaveEnd(u)
    \/ \E t \in Threads : CleanupCheck(t)
    \/ \E t \in Threads : CleanupLoop(t)
    \/ \E t \in Threads : CleanupMap(t)
    \/ \E t \in Threads : CleanupPut(t)
    \/ \E t \in Threads : CleanupDel(t)
    \/ \E t \in Threads : CleanupActive(t)
    \/ \E t \in PlayTh : PlayTick(t)
    \/ \E t \in PlayTh : PlayEnd(t)

Spec == Init /\ [][Next]_vars

\* ---- the create / leave race scenario: every connection creates a game
\* with an automated partner, then leaves or creates again, then creates again
RaceScript ==
    << {Event("create", "HA", TRUE, 1)},
       {Event("leave", "HH", TRUE, 1), Event("create", "HH", TRUE, 1)},
       {Event("create", "HH", TRUE, 1)} >>

InitRace ==
    /\ InitRegistries
    /\ lk = NoLocks
    /\ script = [u \in Users |-> RaceScript]
    /\ budget = MaxRace
    /\ npc = NpcIdle

NextRace ==
    \/ \E u \in Users : Connect(u)
    \/ \E u \in Users : Begin(u)
    \/ \E u \in Users : CreateCurrGame(u)
    \/ \E u \in Users : TryCreateGet(u)
    \/ \E u \in Users : TryCreateNew(u)
    \/ \E u \in Users : TryCreateReg(u)
    \/ \E u \in Users : TryCreateMap(u)
    \/ \E u \in Users : CreateAdd(u)
    \/ \E u \in Users : CreateReady(u)
    \/ \E u \in Users : LeaveCurrGame(u)
    \/ \E u \in Users : LeaveLock(u)
    \/ \E u \in Users : LeaveRemove(u)
    \/ \E u \in Users : LeaveEnd(u)
    \/ \E t \in Threads : CleanupCheck(t)
    \/ \E t \in Threads : CleanupLoop(t)
    \/ \E t \in Threads : CleanupMap(t)
    \/ \E t \in Threads : CleanupPut(t)
    \/ \E t \in Threads : CleanupDel(t)
    \/ \E t \in Threads : CleanupActive(t)
    \/ \E t \in PlayTh : PlayTick(t)
    \/ \E t \in PlayTh : PlayEnd(t)

SpecRace == InitRace /\ [][NextRace]_vars

\* ---- the capacity scenario: the events arrive one after the other; the
\* first connection creates a two-human game and leaves it, the others create
BeginSeq(u) ==
    /\ \A v \in Users \ {u} : th[v].pc = "idle"
    /\ Begin(u)

CapacityScript(u) ==
    IF u = 1
    THEN << {Event("create", "HH", TRUE, n) : n \in 1..MaxLayouts},
            LeaveEvents >>
    ELSE [k \in 1..MaxOps |-> {Event("create", "HH", TRUE, n) : n \in 1..MaxLayouts}]

InitCapacity ==
    /\ InitRegistries
    /\ lk = NoLocks
    /\ script = [u \in Users |-> CapacityScript(u)]
    /\ budget = NumUsers * MaxOps
    /\ npc = NpcIdle

NextCapacity ==
    \/ \E u \in Users : Connect(u)
    \/ \E u \in Users : BeginSeq(u)
    \/ \E u \in Users : CreateCurrGame(u)
    \/ \E u \in Users : TryCreateGet(u)
    \/ \E u \in Users : TryCreateNew(u)
    \/ \E u \in Users : TryCreateReg(u)
    \/ \E u \in Users : TryCreateMap(u)
    \/ \E u \in Users : CreateAdd(u)
    \/ \E u \in Users : CreateReady(u)
    \/ \E u \in Users : LeaveCurrGame(u)
    \/ \E u \in Users : LeaveLock(u)
    \/ \E u \in Users : LeaveRemove(u)
    \/ \E u \in Users : LeaveEnd(u)
    \/ \E t \in Users : CleanupCheck(t)
    \/ \E t \in Users : CleanupLoop(t)
    \/ \E t \in Users : CleanupMap(t)
    \/ \E t \in Users : CleanupPut(t)
    \/ \E t \in Users : CleanupDel(t)
    \/ \E t \in Users : CleanupActive(t)

SpecCapacity == InitCapacity /\ [][NextCapacity]_vars

\* ---- the matchmaking scenario: every connection sends one join for a
\* two-human game, creating one if none waits
MatchScript == << {Event("join", "HH", TRUE, n) : n \in 1..MaxLayouts} >>

InitMatch ==
    /\ InitRegistries
    /\ lk = NoLocks
    /\ script = [u \in Users |-> MatchScript]
    /\ budget = NumUsers
    /\ npc = NpcIdle

NextMatch ==
    \/ \E u \in Users : Connect(u)
    \/ \E u \in Users : Begin(u)
    \/ \E u \in Users : JoinCurrGame(u)
    \/ \E u \in Users : WaitingPop(u)
    \/ \E u \in Users : WaitingFree(u)
    \/ \E u \in Users : WaitingGame(u)
    \/ \E u \in Users : JoinRoom(u)
    \/ \E u \in Users : JoinAdd(u)
    \/ \E u \in Users : TryCreateGet(u)
    \/ \E u \in Users : TryCreateNew(u)
    \/ \E u \in Users : TryCreateReg(u)
    \/ \E u \in Users : TryCreateMap(u)
    \/ \E u \in Users : CreateAdd(u)
    \/ \E u \in Users : CreateReady(u)
    \/ \E t \in PlayTh : CleanupCheck(t)
    \/ \E t \in PlayTh : CleanupLoop(t)
    \/ \E t \in PlayTh : CleanupMap(t)
    \/ \E t \in PlayTh : CleanupPut(t)
    \/ \E t \in PlayTh : CleanupDel(t)
    \/ \E t \in PlayTh : CleanupActive(t)
    \/ \E t \in PlayTh : PlayTick(t)
    \/ \E t \in PlayTh : PlayEnd(t)

SpecMatch == InitMatch /\ [][NextMatch]_vars

\* ---- the stale-entry scenario: the first connection creates a two-human
\* game, leaves it and creates a game of any kind; the others send one join
StaleScript(u) ==
    IF u = 1
    THEN << {Event("create", "HH", TRUE, 1)},
            LeaveEvents,
            {Event("create", k, TRUE, 1) : k \in {"HH", "HA", "AA"}} >>
    ELSE << JoinEvents >>

InitStale ==
    /\ InitRegistries
    /\ lk = NoLocks
    /\ script = [u \in Users |-> StaleScript(u)]
    /\ budget = MaxOps + NumUsers - 1
    /\ npc = NpcIdle

SpecStale == InitStale /\ [][Next]_vars

\* ---- the rejoin scenario: the first connection creates a two-human game,
\* leaves it, creates one again, leaves that one after it has started and
\* joins again; the others send one join
RejoinScript(u) ==
    IF u = 1
    THEN << {Event("create", "HH", TRUE, 1)}, LeaveEvents,
            {Event("create", "HH", TRUE, n) : n \in 1..MaxLayouts}, LeaveEvents,
            {Event("join", "HH", FALSE, 1)} >>
    ELSE << {Event("join", "HH", FALSE, 1)} >>

InitRejoin ==
    /\ InitRegistries
    /\ lk = NoLocks
    /\ script = [u \in Users |-> RejoinScript(u)]
    /\ budget = Len(RejoinScript(1)) + NumUsers - 1
    /\ npc = NpcIdle

SpecRejoin == InitRejoin /\ [][Next]_vars

\* ---- one Game object, from its constructor on: players are added to it
\* and removed from it, it is activated and deactivated, and its players
\* enqueue actions.  th[1] is the caller: op is the method it called last
\* and i the slot (1-based) that call filled or vacated.
SlotGame == heap[1]
SlotCaller(op, i) == [th EXCEPT ![1].op = op, ![1].i = i]

InitSlots ==
    /\ InitRegistries
    /\ lk = NoLocks
    /\ script = [u \in Users |-> <<>>]
    /\ budget = 0
    /\ npc = NpcIdle

SlotsFrame ==
    UNCHANGED <<FREE_IDS, FREE_MAP, GAMES, ACTIVE_GAMES, WAITING_GAMES, USERS,
                USER_ROOMS, rooms, script, budget, sess, npc, lk>>

\* OvercookedGame(id=0, playerZero, playerOne, layouts): the constructor adds
\* the automated players with idx=0 and idx=1
SlotsNew ==
    /\ th[1].pc = "idle"
    /\ \E kind \in Kinds \ {"BAD"}, nl \in 1..MaxLayouts :
         /\ heap' = [heap EXCEPT ![1] = NewGame(0, kind, nl)]
         /\ th' = [th EXCEPT ![1] = [Blank EXCEPT !.pc = "slots", !.op = "new", !.game = 1,
                                                  !.kind = kind, !.nl = nl]]
    /\ UNCHANGED lastOut
    /\ SlotsFrame

\* game.add_player(user_id) by a user who holds no slot
SlotsAdd(u) ==
    /\ th[1].pc = "slots"
    /\ ~InPlayers(SlotGame, u)
    /\ IF add_player_raises(SlotGame)
       THEN /\ lastOut' = Exc(u, "add_player")
            /\ th' = SlotCaller("add", 0)
            /\ UNCHANGED heap
       ELSE /\ heap' = [heap EXCEPT ![1] = add_player(SlotGame, u, NoIdx, TRUE)]
            /\ th' = SlotCaller("add", IndexOf(heap'[1].players, u))
            /\ lastOut' = Emit("none", {}, "none")
    /\ SlotsFrame

\* game.remove_player(user_id) by a user who holds a slot
SlotsRemove(u) ==
    /\ th[1].pc = "slots"
    /\ InPlayers(SlotGame, u)
    /\ heap' = [heap EXCEPT ![1] = remove_player(SlotGame, u)]
    /\ th' = SlotCaller("remove", IndexOf(SlotGame.players, u))
    /\ lastOut' = Emit("none", {}, "none")
    /\ SlotsFrame

\* game.activate() of a game that is ready and has a layout left
SlotsActivate ==
    /\ th[1].pc = "slots"
    /\ ~SlotGame.active /\ is_ready(SlotGame) /\ ~activate_raises(SlotGame)
    /\ heap' = [heap EXCEPT ![1] = activate(SlotGame)]
    /\ th' = SlotCaller("activate", 0)
    /\ lastOut' = Emit("none", {}, "none")
    /\ SlotsFrame

\* game.deactivate()
SlotsDeactivate ==
    /\ th[1].pc = "slots"
    /\ SlotGame.active
    /\ heap' = [heap EXCEPT ![1] = deactivate(SlotGame)]
    /\ th' = SlotCaller("deactivate", 0)
    /\ lastOut' = Emit("none", {}, "none")
    /\ SlotsFrame

\* game.enqueue_action(user_id, action) that passes both checks
SlotsEnqueue(u) ==
    /\ th[1].pc = "slots"
    /\ SlotGame.active /\ InPlayers(SlotGame, u)
    /\ Len(SlotGame.pending_actions[IndexOf(SlotGame.players, u)]) < MaxActs
    /\ \E a \in HumanActs :
         heap' = [heap EXCEPT ![1].pending_actions[IndexOf(SlotGame.players, u)] = Append(@, a)]
    /\ th' = SlotCaller("enqueue", IndexOf(SlotGame.players, u))
    /\ lastOut' = Emit("none", {}, "none")
    /\ SlotsFrame

NextSlots ==
    \/ SlotsNew
    \/ \E u \in Users : SlotsAdd(u)
    \/ \E u \in Users : SlotsRemove(u)
    \/ SlotsActivate
    \/ SlotsDeactivate
    \/ \E u \in Users : SlotsEnqueue(u)

SpecSlots == InitSlots /\ [][NextSlots]_vars

\* ---- the locks.  A handler or task is the sequence of its lock and queue
\* operations; lk.prog[t] is the sequence thread t runs, lk.pos[t] its next
\* operation, lk.held[t] the locks it holds and lk.q the number of actions in
\* the automated player's action queue.
UserLock(u) == [kind |-> "user", of |-> ToString(u)]
SessionLock == [kind |-> "session", of |-> "lock"]
RegistryLock(r) == [kind |-> "registry", of |-> r]

Acq(l) == [op |-> "acq", l |-> l]
Rel(l) == [op |-> "rel", l |-> l]
GetQ == [op |-> "get", l |-> SessionLock]
PutQ == [op |-> "put", l |-> SessionLock]

\* with l: body
With(l, body) == <<Acq(l)>> \o body \o <<Rel(l)>>

\* a method of ThreadSafeDict / ThreadSafeSet that writes, or put / get of a
\* queue.Queue: the structure's lock is taken and released inside the call
Reg(r) == With(RegistryLock(r), <<>>)

\* _create_game: try_create_game, then with game.lock: set_curr_room and
\* ACTIVE_GAMES.add or WAITING_GAMES.put
CreateGameProg(ready) ==
    Reg("FREE_IDS") \o Reg("GAMES") \o Reg("FREE_MAP")
      \o With(SessionLock,
              Reg("USER_ROOMS") \o Reg(IF ready THEN "ACTIVE_GAMES" ELSE "WAITING_GAMES"))

\* on_create
CreateProg(u, ready) == With(UserLock(u), CreateGameProg(ready))

\* on_join: get_waiting_game, then with game.lock of the session found, or
\* _create_game when none was found
JoinProg(u, found, ready) ==
    With(UserLock(u),
         Reg("WAITING_GAMES")
           \o (IF found
               THEN With(SessionLock,
                         Reg("USER_ROOMS")
                           \o Reg(IF ready THEN "ACTIVE_GAMES" ELSE "WAITING_GAMES"))
               ELSE CreateGameProg(ready)))

\* cleanup_game: leave_curr_room, FREE_MAP[id] = True, FREE_IDS.put,
\* del GAMES[id], ACTIVE_GAMES.remove
CleanupProg ==
    Reg("USER_ROOMS") \o Reg("FREE_MAP") \o Reg("FREE_IDS") \o Reg("GAMES")
      \o Reg("ACTIVE_GAMES")

\* a faulty _leave_game that keeps USER_ROOMS locked around the session lock
LeaveGameProg_RoomsFirst(empty) ==
    With(RegistryLock("USER_ROOMS"),
         With(SessionLock, IF empty THEN CleanupProg ELSE <<>>))

\* _leave_game: with game.lock: leave_curr_room, then cleanup_game if the
\* session is empty
LeaveGameProg(empty) ==
    With(SessionLock, Reg("USER_ROOMS") \o (IF empty THEN CleanupProg ELSE <<>>))

\* on_leave, and on_disconnect with its del USERS[user_id]
LeaveProg(u, empty) == With(UserLock(u), LeaveGameProg(empty))
DisconnectProg(u, empty) == LeaveProg(u, empty) \o Reg("USERS")

\* play_game: with game.lock: tick(), which blocks on the automated player's
\* action queue; then with game.lock: cleanup_game
PlayProg == With(SessionLock, <<GetQ>>) \o With(SessionLock, CleanupProg)

\* npc_policy_consumer: enqueue_action puts on the action queue, no lock taken
WorkerProg == <<PutQ>>

HandlerProgs(u) ==
    {CreateProg(u, r) : r \in BOOLEAN}
      \cup {JoinProg(u, TRUE, r) : r \in BOOLEAN}
      \cup {JoinProg(u, FALSE, FALSE)}
      \cup {LeaveProg(u, e) : e \in BOOLEAN}
      \cup {DisconnectProg(u, TRUE)}

PlayTask == NumUsers + 1
Worker == NumUsers + 2

InitLocks ==
    /\ InitRegistries
    /\ script = [u \in Users |-> <<>>]
    /\ budget = 0
    /\ npc = NpcIdle
    /\ \E f \in [Users -> UNION {HandlerProgs(u) : u \in Users}] :
         /\ \A u \in Users : f[u] \in HandlerProgs(u)
         /\ lk = [NoLocks EXCEPT
                    !.prog = [t \in Threads |->
                                IF t \in Users THEN f[t]
                                ELSE IF t = PlayTask THEN PlayProg
                                ELSE IF t = Worker THEN WorkerProg
                                ELSE <<>>]]

Running(t) == lk.pos[t] <= Len(lk.prog[t])
NextOp(t) == lk.prog[t][lk.pos[t]]
Holders(l) == {t \in Threads : l \in lk.held[t]}

LocksFrame ==
    UNCHANGED <<FREE_IDS, FREE_MAP, GAMES, ACTIVE_GAMES, WAITING_GAMES, USERS,
                USER_ROOMS, rooms, heap, th, script, budget, sess, lastOut, npc>>

\* Lock.acquire: the thread waits until no thread holds the lock
LockAcquire(t) ==
    /\ Running(t) /\ NextOp(t).op = "acq"
    /\ Holders(NextOp(t).l) = {}
    /\ lk' = [lk EXCEPT !.pos[t] = @ + 1, !.held[t] = @ \cup {NextOp(t).l}]
    /\ LocksFrame

\* Lock.release
LockRelease(t) ==
    /\ Running(t) /\ NextOp(t).op = "rel"
    /\ lk' = [lk EXCEPT !.pos[t] = @ + 1, !.held[t] = @ \ {NextOp(t).l}]
    /\ LocksFrame

\* pending_actions[i].get(block=True): waits for an action
QueueGet(t) ==
    /\ Running(t) /\ NextOp(t).op = "get"
    /\ lk.q > 0
    /\ lk' = [lk EXCEPT !.pos[t] = @ + 1, !.q = @ - 1]
    /\ LocksFrame

\* pending_actions[i].put(action): waits while the queue is full
QueuePut(t) ==
    /\ Running(t) /\ NextOp(t).op = "put"
    /\ lk.q < NpcBuffSize
    /\ lk' = [lk EXCEPT !.pos[t] = @ + 1, !.q = @ + 1]
    /\ LocksFrame

NextLocks ==
    \/ \E t \in Threads : LockAcquire(t)
    \/ \E t \in Threads : LockRelease(t)
    \/ \E t \in Threads : QueueGet(t)
    \/ \E t \in Threads : QueuePut(t)

SpecLocks == InitLocks /\ [][NextLocks]_vars

\* ---- one active session with an automated player, from its activation on
InitTick ==
    /\ InitRegistries
    /\ lk = NoLocks
    /\ script = [u \in Users |-> <<>>]
    /\ budget = 0
    /\ \E nl \in 1..MaxLayouts, tpa \in 1..MaxTpa :
         npc = NpcActivate(NewNpc(nl, tpa))

NextTick ==
    \/ TickBegin
    \/ ApplyHuman
    \/ ApplyGet
    \/ ApplyPut
    \/ TickEnd
    \/ LeaveDeactivate
    \/ DeactivateFlag
    \/ DeactivatePut
    \/ DeactivateJoin
    \/ WorkerLoop
    \/ WorkerGet
    \/ WorkerEnqueue
    \/ WorkerPut
    \/ ActionBegin
    \/ EnqueueCheck
    \/ EnqueuePut

SpecTick == InitTick /\ [][NextTick]_vars

\* the same session when every thread that can take a step is scheduled in
\* the end: the tick loop, the worker and the handlers are threads of their
\* own, and the phase timer has run out after MaxTicks ticks
SpecTickFair == SpecTick /\ WF_vars(NextTick)

\* ------------------------------------------------------------- properties
\* thread t takes a step of its own
Steps(t) == th'[t] # th[t]

\* the ids in the pool
Pool(q) == {q[k] : k \in 1..Len(q)}

\* the handler of u is inside _create_game with an id taken from the pool
\* and past the assert
Creating(u) == th[u].pc \in {"tc_reg", "tc_map", "cg_add", "cg_ready"}

\* C1: try_create_game never hands out an id that is in use: when it returns
\* a session (after FREE_MAP[id] = False), FREE_MAP[id] was true until then.
C1_HandsOutFreeId ==
    [][\A u \in Users :
         (Steps(u) /\ th[u].pc = "tc_map") => FREE_MAP[th[u].id]]_vars

\* C4: two creates that run concurrently never both obtain the same id: two
\* sessions are never registered under one id.
C4_OneCreateWins ==
    \A u, v \in Users :
        (u # v /\ Creating(u) /\ Creating(v)) => th[u].id # th[v].id

\* C2: a cleanup_game run for one session object frees the id and deletes
\* the GAMES entry of that object only: when it marks the id free and when it
\* deletes GAMES[id], the object registered under the id is the one it was
\* called for, never another session created under the same id.
C2_CleanupOwnSession ==
    [][\A t \in Threads :
         (Steps(t) /\ th[t].pc \in {"cl_map", "cl_del"})
            => GAMES[heap[th[t].game].id] = th[t].game]_vars

\* C3: cleanup_game called for a session whose id is marked free raises the
\* double-free error and leaves FREE_IDS, FREE_MAP, GAMES, ACTIVE_GAMES and
\* USER_ROOMS as they were; the call ends there, before any put into the pool.
C3_DoubleFreeRaises ==
    [][\A t \in Threads :
         (Steps(t) /\ th[t].pc = "cl_chk" /\ FREE_MAP[heap[th[t].game].id])
            => /\ lastOut' = Exc(t, "double_free")
               /\ th'[t].pc = "idle"
               /\ UNCHANGED <<FREE_IDS, FREE_MAP, GAMES, ACTIVE_GAMES, USER_ROOMS>>]_vars

C3_Witness == \E t \in Threads : lastOut = Exc(t, "double_free")

\* C5: a create that finds the pool empty emits creation_failed with the
\* capacity error to its caller and returns, and no step of that handler
\* changes FREE_IDS, FREE_MAP, GAMES, ACTIVE_GAMES, WAITING_GAMES, USER_ROOMS
\* or the rooms.
C5_CapacityFailure ==
    [][\A u \in Users :
         /\ (Steps(u) /\ th[u].op = "create" /\ th[u].pc = "tc_get" /\ FREE_IDS = <<>>)
              => /\ lastOut' = Emit("creation_failed", {u}, "capacity")
                 /\ th'[u].pc = "idle"
         /\ (Steps(u) /\ (\/ (th[u].pc = "idle" /\ th'[u].op = "create")
                           \/ (th[u].op = "create" /\ th[u].pc = "cr_game")
                           \/ (th[u].op = "create" /\ th[u].pc = "tc_get"
                                                   /\ FREE_IDS = <<>>)))
              => UNCHANGED <<FREE_IDS, FREE_MAP, GAMES, ACTIVE_GAMES, WAITING_GAMES,
                             USER_ROOMS, rooms>>]_vars

C5_Witness ==
    /\ \E u \in Users : lastOut = Emit("creation_failed", {u}, "capacity")
    /\ FREE_IDS = <<>>

\* C6: a create whose session construction fails after the id was taken
\* (the policy cannot be loaded) is reported as creation_failed and leaves the
\* pool as it was before the call: the id it took is in FREE_IDS again.
C6_FailedCreateRestoresPool ==
    [][\A u \in Users :
         (Steps(u) /\ th[u].pc = "tc_new" /\ FREE_MAP[th[u].id]
                   /\ get_policy_raises(th[u].kind))
            => /\ lastOut' = Emit("creation_failed", {u}, "ioerror")
               /\ th[u].id \in Pool(FREE_IDS')]_vars

\* C7 (the "never twice" half): no session object has its id put back into
\* FREE_IDS more than once.
C7_PutBackAtMostOnce == \A o \in DOMAIN heap : heap[o].puts <= 1

\* the participants that hold a session
Occupants == {v \in Users : USER_ROOMS[v] # NoId}

C9_MatchScenario ==
    [][\A u \in Users :
         /\ (Steps(u) /\ th[u].pc = "gw_pop" /\ WAITING_GAMES = <<>>)
              => th'[u].pc = "tc_get"
         /\ (Steps(u) /\ th[u].pc = "cg_ready")
              => /\ GAMES[th[u].id] = th[u].game
                 /\ WAITING_GAMES' = Append(WAITING_GAMES, th[u].id)
                 /\ lastOut' = Emit("waiting", {u}, "in_game")
                 /\ ~heap'[th[u].game].active
         /\ (Steps(u) /\ th[u].pc = "gw_pop" /\ WAITING_GAMES # <<>>)
              => /\ th'[u].id = Head(WAITING_GAMES)
                 /\ WAITING_GAMES' = Tail(WAITING_GAMES)
         /\ (Steps(u) /\ th[u].pc \in {"gw_free", "gw_game"})
              => th'[u].pc \in {"gw_game", "jn_room"}
         /\ (Steps(u) /\ th[u].pc = "jn_add")
              => LET o == th[u].game IN
                 /\ GAMES[th[u].id] = o
                 /\ \E a \in Users \ {u} :
                      /\ heap'[o].players = <<a, u>>
                      /\ lastOut' = Emit("start_game", {a, u}, "playing")
                      /\ USER_ROOMS'[a] = th[u].id /\ USER_ROOMS'[u] = th[u].id
                 /\ heap'[o].active
                 /\ th[u].id \in ACTIVE_GAMES'
                 /\ th[u].id \notin Pool(WAITING_GAMES')
                 /\ Cardinality({p \in PlayTh : th'[p].game = o /\ th'[p].pc = "tick"}) = 1
                 /\ Cardinality({p \in PlayTh : th[p].game = o}) = 0]_vars

C9_Witness ==
    \E a, b \in Users :
        /\ a # b
        /\ lastOut = Emit("start_game", {a, b}, "playing")
        /\ \E i \in ACTIVE_GAMES :
             /\ GAMES[i] # NoGame
             /\ heap[GAMES[i]].players = <<a, b>>
             /\ heap[GAMES[i]].active
             /\ \E p \in PlayTh : th[p].game = GAMES[i] /\ th[p].pc = "tick"

\* C10: the action of the automated player in the joint action of a tick is
\* the policy's output for the state the session is in before that tick.
C10_ActionForCurrentState ==
    [][(npc.pc = "aa_get" /\ npc'.pc = "aa_put")
          => Head(npc.actq) = PolicyAction(npc.state)]_vars

\* C11: in a tick a human slot contributes the oldest action of its queue,
\* or STAY when the queue is empty; the tick is never blocked on a human
\* slot, and it takes at most one action out of that queue.
C11_HumanSlotStep ==
    (npc.pc = "aa_hum" /\ npc'.pc # "aa_hum")
        => /\ npc'.usedH = IF npc.hq = <<>> THEN STAY ELSE Head(npc.hq)
           /\ npc'.hq = IF npc.hq = <<>> THEN <<>> ELSE Tail(npc.hq)
C11_RestOfTick ==
    (npc.pc \in {"aa_get", "aa_put"} /\ npc'.pc \in {"aa_get", "aa_put", "tick", "end"})
        => Len(npc'.hq) >= Len(npc.hq)
C11_HumanSlotOldestOrStay ==
    /\ [](npc.pc = "aa_hum" => ENABLED ApplyHuman)
    /\ [][C11_HumanSlotStep /\ C11_RestOfTick]_vars
C11_Witness ==
    npc.pc = "aa_get" /\ npc.seen = 2 /\ npc.usedH = "UP" /\ npc.hq = <<"SPACE">>

\* C14: enqueue_action for a session that is not active, or for a sender
\* that holds no player slot, raises nothing and changes nothing: every
\* pending-action queue and every other field of the session stay as they
\* were.
C14_RejectedEnqueueIsNoOp ==
    [][(npc.h.pc = "chk" /\ npc'.h # npc.h
            /\ (~npc.active \/ ~HoldsSlot(npc, npc.h.p)))
        => /\ npc' = [npc EXCEPT !.h = Returned("rejected")]
           /\ UNCHANGED lifeVars]_vars
C14_Witness ==
    /\ npc.h.res = "rejected"
    /\ npc.active /\ npc.inslot
    /\ Len(npc.hq) = 1 /\ npc.acts = 0

\* C12: the NPC's state channel overwrites: the worker only ever reads the
\* state that was put on the channel last; a state that a later put has
\* superseded is never read, neither at once nor later.
C12_WorkerReadsNewestOnly ==
    [][(npc.w.pc = "get" /\ npc'.w.pc = "enq") => npc'.w.s = npc.newest]_vars

\* C13: deactivate of a session with an automated player returns with the
\* worker gone, whatever the worker was doing: it is never left waiting in
\* join for a worker that waits for room in the action queue, which only
\* the caller of deactivate would make.
C13_DeactivateJoinsWorker ==
    ~(npc.pc = "d_join" /\ npc.w.pc = "put" /\ Len(npc.actq) >= NpcBuffSize)

\* C15: enqueue_action on a slot whose bounded queue is full returns
\* without waiting and leaves the queue as it was: no caller is ever held
\* in the put on a full queue.
C15_FullQueueDoesNotBlock ==
    ~(npc.w.pc = "put" /\ Len(npc.actq) >= NpcBuffSize)

\* the humans attached to a session, as players or as spectators
Humans(g) == g.human_players \cup g.spectators

\* C17: a session is activated only with a human attached, as player or as
\* spectator: no step activates a session all of whose participants are
\* automated.
C17_ActivatedWithHuman ==
    [][\A o \in 1..MaxObjs :
         (~heap[o].active /\ heap'[o].active) => Humans(heap'[o]) # {}]_vars
C17_Witness ==
    \E id \in ACTIVE_GAMES :
        /\ GAMES[id] # NoGame
        /\ heap[GAMES[id]].active
        /\ heap[GAMES[id]].human_players = {}
        /\ heap[GAMES[id]].npc_players # {}
        /\ heap[GAMES[id]].spectators # {}

\* C18: get_waiting_game takes entries from the head of the waiting queue,
\* drops those whose id is free and returns the session of the first entry
\* whose id is not free; it returns none only from the pop that found the
\* queue empty, and it leaves the entries behind the taken ones in order.
C18_WaitingGameFifo ==
    [][\A u \in Users :
         /\ (th[u].pc = "gw_pop" /\ Steps(u) /\ WAITING_GAMES # <<>>)
               => /\ th'[u].pc = "gw_free"
                  /\ th'[u].id = Head(WAITING_GAMES)
                  /\ WAITING_GAMES' = Tail(WAITING_GAMES)
         /\ (th[u].pc = "gw_free" /\ Steps(u))
               => /\ th'[u].pc = IF FREE_MAP[th[u].id] THEN "gw_pop" ELSE "gw_game"
                  /\ WAITING_GAMES' = WAITING_GAMES
         /\ (th[u].pc = "gw_game" /\ Steps(u))
               => /\ th'[u].pc = "jn_room"
                  /\ th'[u].game = GAMES[th[u].id]
                  /\ WAITING_GAMES' = WAITING_GAMES]_vars

\* C19: the waiting queue never holds two entries that refer to the same
\* live session.
C19_NoDuplicateLiveEntry ==
    \A i, j \in DOMAIN WAITING_GAMES :
        (i < j /\ WAITING_GAMES[i] = WAITING_GAMES[j])
            => GAMES[WAITING_GAMES[i]] = NoGame

\* C20: when the cleanup run by the tick loop has completed, no participant
\* of the session, player or spectator, is still mapped to the freed id in
\* USER_ROOMS, and the id is in neither GAMES nor ACTIVE_GAMES.
C20_TickCleanupUnmapsAll ==
    [][\A t \in PlayTh :
         (th[t].pc = "cl_act" /\ Steps(t))
            => LET g == heap[th[t].game] IN
               /\ \A u \in Users :
                     (InPlayers(g, u) \/ u \in g.spectators) => USER_ROOMS'[u] # g.id
               /\ GAMES'[g.id] = NoGame
               /\ g.id \notin ACTIVE_GAMES']_vars

\* C16: add_player on a full or an active session fails with an error and
\* leaves the session's players, its human and automated sets and its
\* spectators as they were.
C16_AddPlayerRefused ==
    [][\A u \in Users :
         (/\ Steps(u)
          /\ \/ th[u].pc = "jn_add"
             \/ th[u].pc = "cg_add" /\ ~is_full(G(u))
          /\ is_full(G(u)) \/ G(u).active)
            => /\ lastOut' = Exc(u, "add_player")
               /\ \/ heap'[th[u].game] = DeadGame
                  \/ heap'[th[u].game] = [G(u) EXCEPT !.lock = FALSE]]_vars
C16_Witness ==
    /\ lastOut = Exc(2, "add_player")
    /\ GAMES[0] # NoGame
    /\ heap[GAMES[0]].active
    /\ ~InPlayers(heap[GAMES[0]], 2)
    /\ USER_ROOMS[2] = 0

\* the session after user u has been taken out of it by _leave_game
Without(g, u) == IF InPlayers(g, u) THEN remove_player(g, u) ELSE remove_spectator(g, u)
LeaveRaises(g, u) ==
    IF InPlayers(g, u) THEN remove_player_raises(g, u) ELSE remove_spectator_raises(g, u)
InQueue(q, id) == \E i \in DOMAIN q : q[i] = id

\* C21: when a participant leaves an active session that is then not empty
\* but no longer ready, the session is demoted to waiting: it stays
\* registered and it is in the waiting queue, where a later join finds it.
C21_DemotedToWaiting ==
    [][\A u \in Users :
         (/\ th[u].pc = "lv_rm" /\ Steps(u)
          /\ G(u).active /\ ~LeaveRaises(G(u), u)
          /\ ~is_empty(Without(G(u), u)) /\ ~is_ready(Without(G(u), u)))
            => /\ GAMES'[G(u).id] = th[u].game
               /\ InQueue(WAITING_GAMES', G(u).id)]_vars

\* the pcs of cleanup_game
CleanupPcs == {"cl_chk", "cl_loop", "cl_map", "cl_put", "cl_del", "cl_act"}

\* user u is a player or a spectator of a session that is registered in
\* GAMES and is not being cleaned up
Member(u) ==
    \E id \in Ids :
        /\ GAMES[id] # NoGame
        /\ InPlayers(heap[GAMES[id]], u) \/ u \in heap[GAMES[id]].spectators
        /\ \A t \in Threads : th[t].pc \in CleanupPcs => th[t].game # GAMES[id]

\* C23: once the disconnect of p is over, p is in neither USERS nor
\* USER_ROOMS and is neither player nor spectator of a registered session.
C23_DisconnectedIsGone ==
    \A u \in Users :
        (sess[u] = "closed" /\ th[u].pc = "idle")
            => /\ u \notin USERS
               /\ USER_ROOMS[u] = NoId \/ \E t \in Threads : th[t].pc \in CleanupPcs
               /\ ~Member(u)

\* C24: an end_game event carries DONE only for a session whose tick loop
\* ended with DONE: no end_game sent because of a leave carries DONE.
C24_LeaveNeverSendsDone ==
    [][\A u \in Users :
         (th[u].pc = "lv_end" /\ th[u].op = "leave" /\ Steps(u))
            => ~(lastOut'.ev = "end_game" /\ lastOut'.status = "done")]_vars

\* C25: a join by a participant who is in a session already is a no-op:
\* the waiting queue, the id pool, the registries, the room mapping and
\* every session stay as they were.
C25_JoinInSessionIsNoOp ==
    [][\A u \in Users :
         (th[u].pc = "jn_game" /\ Steps(u) /\ Member(u))
            => /\ th'[u].pc = "idle"
               /\ UNCHANGED <<WAITING_GAMES, FREE_IDS, FREE_MAP, GAMES, ACTIVE_GAMES,
                              USER_ROOMS, rooms, heap>>]_vars
C25_Witness ==
    \E u \in Users :
        /\ th[u].op = "join" /\ th[u].pc = "jn_game"
        /\ Member(u) /\ th[u].id # NoId
        /\ WAITING_GAMES # <<>>

\* no create and no cleanup is part-way through
Quiescent ==
    \A t \in Threads :
        th[t].pc \notin {"tc_get", "tc_new", "tc_reg", "tc_map", "cg_add", "cg_ready",
                         "end"} \cup CleanupPcs
Count(q, id) == Cardinality({i \in DOMAIN q : q[i] = id})

\* C26: whenever no create and no cleanup is part-way through, FREE_MAP[id]
\* is true exactly when id is in the FREE_IDS pool, once, and is not a key
\* of GAMES.
C26_FreeMapAgreesWithPool ==
    Quiescent =>
        \A id \in Ids :
            FREE_MAP[id] <=> (Count(FREE_IDS, id) = 1 /\ GAMES[id] = NoGame)

\* C22: when tick() raises in a running session, the tick loop still goes
\* on to the teardown that sends end_game, frees the id and unregisters the
\* session.
C22_TickErrorTearsDown ==
    [][\A t \in PlayTh :
         (th[t].pc = "tick" /\ Steps(t) /\ \A e \in BOOLEAN : tick_raises(G(t), e))
            => th'[t].pc = "end"]_vars

\* the tick loops that are ticking session object o
Ticking(o) == {t \in PlayTh : th[t].op = "play" /\ th[t].pc = "tick" /\ th[t].game = o}

\* C27: at any instant at most one tick loop is running for a session.
C27_OneTickLoopPerSession ==
    \A o \in 1..MaxObjs : Cardinality(Ticking(o)) <= 1

\* C28: DONE and INACTIVE are terminal: a session whose tick has returned
\* DONE or INACTIVE to its tick loop is not activated again, and the tick
\* loop's cleanup never frees the id of a session that is active.
C28_EndedStaysEnded ==
    [][/\ \A o \in 1..MaxObjs :
            (~heap[o].active /\ heap'[o].active)
               => ~\E t \in PlayTh : /\ th[t].op = "play" /\ th[t].game = o
                                      /\ th[t].status \in {"done", "inactive"}
       /\ \A t \in PlayTh :
            (th[t].pc = "cl_map" /\ Steps(t)) => ~G(t).active]_vars

\* game.lock is held: play_game's "with game.lock: status = game.tick()"
\* from the tick's first statement to its return, the closing block of
\* play_game and _leave_game around deactivate()
LockHeld(n) == n.pc \in {"aa_hum", "aa_get", "aa_put", "d_flag", "d_put", "d_join"}

\* a step of enqueue_action that reads the active flag or the player slots,
\* or puts on a pending-action queue, in the on_action handler or in the
\* automated player's worker thread
EnqueueAccess ==
    \/ npc.h.pc \in {"chk", "put"} /\ npc'.h # npc.h
    \/ npc.w.pc \in {"enq", "put"} /\ npc'.w # npc.w

\* C29: every read or write of a session's mutable fields is made by the
\* thread that holds the session's lock: enqueue_action, called by on_action
\* or by the automated player's worker, never reads the active flag or
\* writes a pending-action queue while another thread holds the lock.
C29_FieldAccessUnderLock ==
    [][EnqueueAccess => ~LockHeld(npc)]_vars

\* C30: tick() on a session that is not active returns INACTIVE and changes
\* no field of the session: the tick counter, the environment state, the
\* queues and the player slots are as before, and nothing is put on the
\* state queue of the automated player.
C30_InactiveTickIsNoOp ==
    [][(npc.pc = "tick" /\ ~npc.active /\ npc'.pc # "tick")
          => /\ npc'.pc = "over"
             /\ npc'.curr_tick = npc.curr_tick
             /\ npc'.state = npc.state
             /\ npc'.stq = npc.stq
             /\ npc'.actq = npc.actq
             /\ npc'.hq = npc.hq
             /\ npc'.inslot = npc.inslot
             /\ npc'.layouts = npc.layouts]_vars

\* C34: a tick of an active session with an automated player always comes
\* back: the session is never left with the tick blocked on the automated
\* player's empty action queue, holding the lock, while the worker is blocked
\* on its empty state queue.
C34_TickNeverStuck ==
    ~(/\ npc.pc = "aa_get" /\ npc.actq = <<>>
      /\ npc.w.pc = "get" /\ npc.stq = <<>>)

\* no handler of a socket event and no cleanup is part-way through
AllIdle == \A t \in Threads : th[t].pc \in {"idle", "tick"}

\* C35: whenever no lifecycle operation is part-way through, a user mapped
\* to a session id is a player or a spectator of the session registered
\* under that id.
C35_MappedToOwnSession ==
    AllIdle =>
        \A u \in Users :
            USER_ROOMS[u] # NoId
                => /\ GAMES[USER_ROOMS[u]] # NoGame
                   /\ \/ InPlayers(heap[GAMES[USER_ROOMS[u]]], u)
                      \/ u \in heap[GAMES[USER_ROOMS[u]]].spectators

\* C36: the actions a human enqueues are applied in the order of their
\* arrival, one per tick: while the session is active its queue changes only
\* by an action added at the end or by a tick taking the oldest one, and
\* when deactivate() returns, the queue of every held slot is empty.
C36_QueueStep ==
    (npc.active /\ npc'.active /\ npc.inslot /\ npc'.inslot)
        => \/ npc'.hq = npc.hq
           \/ /\ npc.h.pc = "put" /\ npc'.h.res = "queued"
              /\ npc'.hq = Append(npc.hq, npc.h.a)
           \/ /\ npc.pc = "aa_hum" /\ npc'.pc = "aa_get"
              /\ npc.hq # <<>>
              /\ npc'.usedH = Head(npc.hq) /\ npc'.hq = Tail(npc.hq)
C36_DeactivateStep ==
    (npc.pc = "d_join" /\ npc'.pc # "d_join") => npc'.hq = <<>>
C36_HumanActionsInOrder ==
    [][C36_QueueStep /\ C36_DeactivateStep]_vars
C36_Witness ==
    /\ npc.pc = "aa_put" /\ npc.active /\ npc.inslot
    /\ npc.seen = 2 /\ npc.usedH = "SPACE" /\ npc.hq = <<"UP">>

\* C33: a session created with k layouts whose participants stay gets
\* RESET from tick k-1 times and then DONE: unless the human leaves, the
\* tick loop ends up with a tick that has returned DONE.
C33_ResetsThenDone ==
    <>(~npc.inslot \/ npc.pc \in {"end", "over"})

\* C31: in every state of a session the number of occupied player slots is
\* at most max_players, and is_full holds exactly when that number equals
\* max_players.
C31_SlotCountBounded ==
    \A o \in DOMAIN heap :
        /\ num_players(heap[o]) <= heap[o].max_players
        /\ is_full(heap[o]) <=> num_players(heap[o]) = heap[o].max_players
C31_Witness ==
    /\ th[1].op = "add" /\ lastOut = Exc(2, "add_player")
    /\ is_full(SlotGame) /\ ~SlotGame.active
    /\ SlotGame.players = <<1, NpcId(1)>>

\* the slot (1-based) add_player without an index fills
LowestEmpty(g) ==
    IF InPlayers(g, EMPTY) THEN IndexOf(g.players, EMPTY) ELSE Len(g.players) + 1

\* C32: remove_player puts the EMPTY marker in the leaver's slot and never
\* shortens the list: every other participant keeps its slot index, a later
\* add_player fills the lowest EMPTY slot, and the new owner's action queue
\* is a fresh empty one.
C32_Step ==
    /\ Len(SlotGame'.players) >= Len(SlotGame.players)
    /\ \A p \in Users \cup {NpcId(0), NpcId(1)} :
          /\ (InPlayers(SlotGame, p) /\ InPlayers(SlotGame', p))
                => IndexOf(SlotGame'.players, p) = IndexOf(SlotGame.players, p)
          /\ (InPlayers(SlotGame, p) /\ ~InPlayers(SlotGame', p))
                => /\ SlotGame'.players =
                        [SlotGame.players EXCEPT ![IndexOf(SlotGame.players, p)] = EMPTY]
                   /\ SlotGame'.pending_actions[IndexOf(SlotGame.players, p)] = EMPTY
          /\ (~InPlayers(SlotGame, p) /\ InPlayers(SlotGame', p))
                => /\ IndexOf(SlotGame'.players, p) = LowestEmpty(SlotGame)
                   /\ SlotGame'.pending_actions[LowestEmpty(SlotGame)] = <<>>
C32_SlotsAreStable ==
    [][th[1].pc = "slots" => C32_Step]_vars
C32_Witness ==
    /\ th[1].op = "add" /\ th[1].i = 1
    /\ SlotGame.players = <<2, 1>>
    /\ SlotGame.pending_actions = << <<>>, <<>> >>
    /\ SlotGame.layouts < th[1].nl

\* user lock, then session lock, then registry lock
Rank(l) == CASE l.kind = "user" -> 1 [] l.kind = "session" -> 2 [] OTHER -> 3

\* thread t waits for a lock that thread s holds
Waits(t, s) ==
    /\ t # s /\ Running(t) /\ NextOp(t).op = "acq"
    /\ NextOp(t).l \in lk.held[s]

\* s is reached from t along at most n edges of the waits-for relation
RECURSIVE WaitsChain(_, _, _)
WaitsChain(t, s, n) ==
    \/ Waits(t, s)
    \/ n > 1 /\ \E r \in Threads : Waits(t, r) /\ WaitsChain(r, s, n - 1)

\* the next operation of t may make it wait for a session lock or an action
\* queue
MayBlock(t) ==
    /\ Running(t)
    /\ \/ NextOp(t).op \in {"get", "put"}
       \/ NextOp(t).op = "acq" /\ NextOp(t).l.kind = "session"

\* C37: no thread holds a registry lock while it waits for a session lock
\* or blocks on an action queue; locks are taken in the order user lock,
\* session lock, registry lock; and no cycle of threads waiting for each
\* other's locks is reached.
C37_LockOrder ==
    \A t \in Threads :
        /\ MayBlock(t) => \A h \in lk.held[t] : h.kind # "registry"
        /\ (Running(t) /\ NextOp(t).op = "acq")
              => \A h \in lk.held[t] : Rank(h) < Rank(NextOp(t).l)
        /\ ~WaitsChain(t, t, Cardinality(Threads))
C37_Witness ==
    \E u \in Users :
        /\ Waits(u, PlayTask) /\ NextOp(u).l = SessionLock
        /\ UserLock(u) \in lk.held[u]
        /\ Running(PlayTask) /\ NextOp(PlayTask).op = "get" /\ lk.q = 0
====
